---- MODULE Spec2Model ----
(***************************************************************************)
(* Environment components of CommonSE (src/commonse/environment.py):       *)
(* PowerWind, LinearWaves, TowerSoilK and TowerSoil.                       *)
(*                                                                         *)
(* Each method body is modelled statement by statement for a constructed   *)
(* instance.  A reference to a name that is bound nowhere in the method    *)
(* (sparams, parmas, z, z0, self.z) raises NameError/AttributeError at     *)
(* the statement that holds it, as Python does; the statements before it   *)
(* have taken effect and the ones after it have not.                       *)
(*                                                                         *)
(* Real numbers of the wind and soil formulas are exact extended           *)
(* rationals <<n, d>> (d = 0: +inf, -inf, nan as numpy produces them).     *)
(* The transcendental wave formulas are computed in fixed point.           *)
(***************************************************************************)
EXTENDS Integers, Sequences, FiniteSets, TLC

VARIABLES
    pwParams,    \* PowerWind params: Uref, zref, z0, shearExp, betaWind, z
    pwUnknowns,  \* PowerWind unknowns: U, beta
    pwStatus,    \* outcome of the last PowerWind.solve_nonlinear
    pwLin,       \* outcome of the last PowerWind.linearize
    lwParams,    \* LinearWaves params: z, z_surface, z_floor, Uc, hmax, T, g
    lwUnknowns,  \* LinearWaves unknowns: U, A, U0, A0
    lwJ,         \* LinearWaves self.J
    lwStatus,    \* outcome of the last LinearWaves.solve_nonlinear
    lwSolve,     \* outcome of the last dispersion solve (brentq call)
    lwRet,       \* outcome of the last LinearWaves.provideJ
    lwHist,      \* history: whether solve_nonlinear was called, and the params it read
    tsIn,        \* TowerSoil inputs: G, nu, depth, r0, rigid
    tsK,         \* TowerSoil self.k
    tsStatus,    \* outcome of the last TowerSoil.execute
    tsJ,         \* outcome of the last TowerSoil.provideJ
    tkHeap,      \* TowerSoilK: the array objects (kin's array, k's initial array)
    tkRef,       \* TowerSoilK: which array object self.kin and self.k refer to
    tkRigid,     \* TowerSoilK rigid
    tkStatus,    \* outcome of the last TowerSoilK.execute
    tkKin0       \* history: the values the caller supplied in kin

vars == <<pwParams, pwUnknowns, pwStatus, pwLin,
          lwParams, lwUnknowns, lwJ, lwStatus, lwSolve, lwRet, lwHist,
          tsIn, tsK, tsStatus, tsJ,
          tkHeap, tkRef, tkRigid, tkStatus, tkKin0>>

pwVars == <<pwParams, pwUnknowns, pwStatus, pwLin>>
lwVars == <<lwParams, lwUnknowns, lwJ, lwStatus, lwSolve, lwRet, lwHist>>
tsVars == <<tsIn, tsK, tsStatus, tsJ>>
tkVars == <<tkHeap, tkRef, tkRigid, tkStatus, tkKin0>>

-----------------------------------------------------------------------------
(* Bounds of the model *)

NPoints == 2        \* length of the query-height vector z
MaxZ == 3           \* wind query heights and reference heights are -1..MaxZ
MaxShearExp == 2    \* shearExp is 1..MaxShearExp
MaxR0 == 2          \* TowerSoil r0 is -1..MaxR0
MaxDepth == 2       \* TowerSoil depth is 0..MaxDepth
MaxKin == 2         \* TowerSoilK kin entries are 1..MaxKin or +inf
Scale == 100        \* fixed-point resolution of the wave arithmetic: 1/Scale

-----------------------------------------------------------------------------
(* Extended rationals *)

Abs(n) == IF n < 0 THEN -n ELSE n

Sgn(n) == IF n < 0 THEN -1 ELSE IF n > 0 THEN 1 ELSE 0

RECURSIVE Gcd(_, _)
Gcd(a, b) == IF b = 0 THEN a ELSE Gcd(b, a % b)

\* n/d in lowest terms with d >= 0; d = 0 gives +inf, -inf or nan
Rat(n, d) ==
    IF d = 0 THEN <<Sgn(n), 0>>
    ELSE LET g == Gcd(Abs(n), Abs(d))
             s == Sgn(d)
         IN <<(s * n) \div g, Abs(d) \div g>>

PosInf == <<1, 0>>
NaN == <<0, 0>>
RZero == <<0, 1>>
ROne == <<1, 1>>
RInt(n) == <<n, 1>>

IsFinite(x) == x[2] # 0
IsNaN(x) == x = NaN

\* IEEE rules: inf*0 = nan, nan*x = nan, x/0 = +-inf (0/0 = nan), x/inf = 0
RMul(x, y) == Rat(x[1] * y[1], x[2] * y[2])

RAdd(x, y) ==
    IF IsFinite(x) /\ IsFinite(y) THEN Rat(x[1] * y[2] + y[1] * x[2], x[2] * y[2])
    ELSE IF IsNaN(x) \/ IsNaN(y) THEN NaN
    ELSE IF IsFinite(x) THEN y
    ELSE IF IsFinite(y) THEN x
    ELSE IF x = y THEN x ELSE NaN

RNeg(x) == <<-x[1], x[2]>>

RSub(x, y) == RAdd(x, RNeg(y))

RDiv(x, y) ==
    IF IsNaN(x) \/ IsNaN(y) THEN NaN
    ELSE IF ~IsFinite(y) THEN (IF IsFinite(x) THEN RZero ELSE NaN)
    ELSE IF ~IsFinite(x) THEN (IF y[1] < 0 THEN RNeg(x) ELSE x)
    ELSE Rat(x[1] * y[2], x[2] * y[1])

RECURSIVE RPow(_, _)
RPow(x, e) == IF e = 0 THEN ROne ELSE RMul(x, RPow(x, e - 1))

\* x <= y; false when either is nan
RLeq(x, y) ==
    IF IsNaN(x) \/ IsNaN(y) THEN FALSE
    ELSE IF IsFinite(x) /\ IsFinite(y) THEN x[1] * y[2] <= y[1] * x[2]
    ELSE IF x = y THEN TRUE
    ELSE IF ~IsFinite(x) THEN x[1] < 0
    ELSE y[1] > 0

Idx == 1..NPoints

-----------------------------------------------------------------------------
(* PowerWind *)

WindHeights == -1..MaxZ

PowerWindParams ==
    [Uref : {-2, 0, 3}, zref : 0..MaxZ, z0 : 0..1, shearExp : 1..MaxShearExp,
     betaWind : {0, 30}, z : [Idx -> WindHeights]]

\* the profile with the z > z0 mask left out
PowerWindU_nomask(p) ==
    [i \in Idx |->
        RMul(RInt(p.Uref),
             RPow(RDiv(RInt(p.z[i] - p.z0), RInt(p.zref - p.z0)), p.shearExp))]

\* lines 115-118: idx = z > z0; U = zeros(n); U[idx] = Uref*((z[idx]-z0)/(zref-z0))**shearExp
PowerWindU(p) ==
    [i \in Idx |->
        IF p.z[i] > p.z0
        THEN RMul(RInt(p.Uref),
                  RPow(RDiv(RInt(p.z[i] - p.z0), RInt(p.zref - p.z0)), p.shearExp))
        ELSE RZero]

\* line 119: beta = betaWind*ones_like(z)
PowerWindBeta(p) == [i \in Idx |-> p.betaWind * 1]

\* WindBase.__init__: U and beta start as zeros(nPoints)
PowerWindUnknowns0 == [U |-> [i \in Idx |-> RZero], beta |-> [i \in Idx |-> 0]]

PowerWindInit ==
    /\ pwParams \in PowerWindParams
    /\ pwUnknowns = PowerWindUnknowns0
    /\ pwStatus = "none"
    /\ pwLin = [status |-> "none", J |-> {}]

\* PowerWind.solve_nonlinear: numpy arithmetic raises nothing
PowerWind_solve_nonlinear ==
    /\ pwUnknowns' = [U |-> PowerWindU(pwParams), beta |-> PowerWindBeta(pwParams)]
    /\ pwStatus' = "ok"
    /\ UNCHANGED <<pwParams, pwLin>>
    /\ UNCHANGED <<lwVars, tsVars, tkVars>>

\* lines 136-141: the keys the local J holds when line 143 is reached
PowerWindJKeys == {<<"U", "Uref">>, <<"U", "z">>, <<"U", "zref">>}

\* line 143: idx = z > z0 reads z and z0, which linearize binds nowhere
PowerWindLinearizeOutcome == "NameError"

\* PowerWind.linearize: returns J only when no statement raised
PowerWind_linearize ==
    /\ pwStatus = "ok"
    /\ pwLin' = IF PowerWindLinearizeOutcome = "ok"
                THEN [status |-> "ok", J |-> PowerWindJKeys]
                ELSE [status |-> PowerWindLinearizeOutcome, J |-> {}]
    /\ UNCHANGED <<pwParams, pwUnknowns, pwStatus>>
    /\ UNCHANGED <<lwVars, tsVars, tkVars>>

-----------------------------------------------------------------------------
(* Fixed-point arithmetic of the wave formulas: the integer v stands for v/Scale *)

\* integer division truncating toward zero
TDiv(n, d) == Sgn(n) * Sgn(d) * (Abs(n) \div Abs(d))

Fx(n, d) == TDiv(n * Scale, d)

FMul(a, b) == TDiv(a * b, Scale)

FDiv(a, b) == TDiv(a * Scale, b)

\* math.tanh: x(27 + x^2)/(27 + 9x^2) inside (-3, 3), saturated outside
Tanh(x) ==
    IF x >= 3 * Scale THEN Scale
    ELSE IF x <= -3 * Scale THEN -Scale
    ELSE LET x2 == FMul(x, x)
         IN FDiv(FMul(x, 27 * Scale + x2), 27 * Scale + 9 * x2)

\* np.cosh: 1 + x^2/2 + x^4/24
Cosh(x) ==
    LET x2 == FMul(x, x)
        x4 == FMul(x2, x2)
    IN Scale + TDiv(x2, 2) + TDiv(x4, 24)

\* np.sinh, math.sinh: x + x^3/6 + x^5/120
Sinh(x) ==
    LET x2 == FMul(x, x)
        x3 == FMul(x2, x)
        x5 == FMul(x3, x2)
    IN x + TDiv(x3, 6) + TDiv(x5, 120)

-----------------------------------------------------------------------------
(* LinearWaves *)

WaveHeights == {Fx(-25, 1), 0, Fx(10, 1)}

WaveFloors == {Fx(-50, 1), Fx(-5, 1), Fx(50, 1)}

WavePeriods == {0, Fx(10, 1)}

LinearWavesParams ==
    [z : [Idx -> WaveHeights], z_surface : {0}, z_floor : WaveFloors,
     Uc : {0, Fx(1, 1)}, hmax : {Fx(2, 1)}, T : WavePeriods,
     g : {Fx(981, 100), -Fx(981, 100)}]

\* line 276
Depth(p) == p.z_surface - p.z_floor

\* line 282: omega = 2.0*math.pi/T (T # 0)
Omega(p) == FDiv(Fx(628, 100), p.T)

\* line 285, the residual: omega**2 - g*k*tanh(d*k)
Dispersion(p, k) ==
    FMul(Omega(p), Omega(p)) - FMul(FMul(p.g, k), Tanh(FMul(Depth(p), k)))

\* line 285, the upper end of the bracket: 10*omega**2/g (g # 0)
BracketEnd(p) == FDiv(10 * FMul(Omega(p), Omega(p)), p.g)

\* brentq's default maxiter
BrentqMaxIter == 100

\* brentq's iteration on a bracket [lo, hi] whose ends have residuals of opposite
\* sign: halve it until it is one grid step wide or the budget is spent
RECURSIVE BrentqIter(_, _, _, _)
BrentqIter(p, lo, hi, it) ==
    LET mid == TDiv(lo + hi, 2)
        flo == Dispersion(p, lo)
        fhi == Dispersion(p, hi)
        fm  == Dispersion(p, mid)
    IN IF mid = lo \/ mid = hi
       THEN [status |-> "ok", k |-> IF Abs(flo) <= Abs(fhi) THEN lo ELSE hi, iters |-> it]
       ELSE IF it >= BrentqMaxIter
       THEN [status |-> "RuntimeError", k |-> 0, iters |-> it]
       ELSE IF fm = 0
       THEN [status |-> "ok", k |-> mid, iters |-> it + 1]
       ELSE IF Sgn(fm) = Sgn(flo)
       THEN BrentqIter(p, mid, hi, it + 1)
       ELSE BrentqIter(p, lo, mid, it + 1)

\* brentq(f, a, b): ValueError unless f(a) and f(b) differ in sign
Brentq(p, a, b) ==
    LET fa == Dispersion(p, a)
        fb == Dispersion(p, b)
    IN IF fa * fb > 0 THEN [status |-> "ValueError", k |-> 0, iters |-> 0]
       ELSE IF fa = 0 THEN [status |-> "ok", k |-> a, iters |-> 0]
       ELSE IF fb = 0 THEN [status |-> "ok", k |-> b, iters |-> 0]
       ELSE BrentqIter(p, a, b, 0)

NoSolve == [status |-> "none", k |-> 0, iters |-> 0]

\* lines 282-285: the wave number, or the exception that ends solve_nonlinear
WaveNumber(p) ==
    IF p.T = 0 \/ p.g = 0 THEN [status |-> "ZeroDivisionError", k |-> 0, iters |-> 0]
    ELSE Brentq(p, 0, BracketEnd(p))

\* lines 291-292, the speed at z_rel: h/2.0*omega*cosh(k*(z_rel + d))/sinh(k*d) + Uc
\* (sinh(k*d) = 0 needs d = 0 or k = 0, and the solve returns no k then)
WaveSpeed(p, k, z_rel) ==
    FDiv(FMul(FMul(TDiv(p.hmax, 2), Omega(p)), Cosh(FMul(k, z_rel + Depth(p)))),
         Sinh(FMul(k, Depth(p)))) + p.Uc

\* lines 295, 307: z < z_floor or z > z_surface
OutOfRange(p, i) == p.z[i] < p.z_floor \/ p.z[i] > p.z_surface

\* line 305: dU_dz = h/2.0*omega*sinh(k*(z_rel + d))/sinh(k*d)*k
WaveSlope(p, k, z_rel) ==
    FMul(FDiv(FMul(FMul(TDiv(p.hmax, 2), Omega(p)), Sinh(FMul(k, z_rel + Depth(p)))),
              Sinh(FMul(k, Depth(p)))), k)

\* solve_nonlinear with every name it reads bound
UnboundAt_none == {}

\* the lines of solve_nonlinear that read a name bound nowhere in it:
\* 292 sparams, 295 parmas, 306 self.z
UnboundAt == {292, 295, 306}

NoJ == [set |-> FALSE, from |-> <<>>, k |-> 0, dU_dz |-> <<>>, dU_dUc |-> <<>>]

\* WaveBase.__init__: U and A start as zeros(nPoints), U0 and A0 as 0.0
LinearWavesUnknowns0 ==
    [U |-> [i \in Idx |-> 0], A |-> [i \in Idx |-> 0], U0 |-> 0, A0 |-> 0]

\* LinearWaves.solve_nonlinear, lines 273-317, from unknowns u and self.J j:
\* the exception that ended it ("ok": none), the unknowns and self.J it leaves
SolveNonlinear(p, u, j) ==
    LET kk == WaveNumber(p)
        k == kk.k
        omega == Omega(p)
        u291 == [u EXCEPT !.U = [i \in Idx |-> WaveSpeed(p, k, p.z[i] - p.z_surface)]]
        u292 == [u291 EXCEPT !.U0 = WaveSpeed(p, k, 0)]
        u295 == [u292 EXCEPT !.U = [i \in Idx |-> IF OutOfRange(p, i) THEN 0 ELSE u292.U[i]]]
        u299 == [u295 EXCEPT !.A = [i \in Idx |-> FMul(u295.U[i], omega)],
                             !.A0 = FMul(u295.U0, omega)]
        j317 == [set |-> TRUE, from |-> p, k |-> k,
                 dU_dz |-> [i \in Idx |-> IF OutOfRange(p, i) THEN 0
                                          ELSE WaveSlope(p, k, p.z[i] - p.z_surface)],
                 dU_dUc |-> [i \in Idx |-> IF OutOfRange(p, i) THEN 0 ELSE Scale]]
    IN IF kk.status # "ok" THEN [status |-> kk.status, unknowns |-> u, J |-> j]
       ELSE IF 292 \in UnboundAt THEN [status |-> "NameError", unknowns |-> u291, J |-> j]
       ELSE IF 295 \in UnboundAt THEN [status |-> "NameError", unknowns |-> u292, J |-> j]
       ELSE IF 306 \in UnboundAt THEN [status |-> "AttributeError", unknowns |-> u299, J |-> j]
       ELSE [status |-> "ok", unknowns |-> u299, J |-> j317]

LinearWavesInit ==
    /\ lwParams \in LinearWavesParams
    /\ lwUnknowns = LinearWavesUnknowns0
    /\ lwJ = NoJ
    /\ lwStatus = "none"
    /\ lwSolve = NoSolve
    /\ lwRet = [status |-> "none", current |-> FALSE]
    /\ lwHist = [called |-> FALSE, params |-> lwParams]

LinearWaves_solve_nonlinear ==
    LET r == SolveNonlinear(lwParams, lwUnknowns, lwJ)
    IN /\ lwStatus' = r.status
       /\ lwUnknowns' = r.unknowns
       /\ lwJ' = r.J
       /\ lwSolve' = WaveNumber(lwParams)
       /\ lwHist' = [called |-> TRUE, params |-> lwParams]
       /\ UNCHANGED <<lwParams, lwRet>>
       /\ UNCHANGED <<pwVars, tsVars, tkVars>>

\* LinearWaves.provideJ: return self.J (AttributeError while self.J was never set).
\* current: the J returned was stored by the latest solve_nonlinear call, which
\* completed, read the params now in force and found the wave number J holds
LinearWaves_provideJ ==
    /\ lwRet' = IF lwJ.set
                THEN [status |-> "ok",
                      current |-> /\ lwStatus = "ok"
                                  /\ lwHist.params = lwParams
                                  /\ lwJ.from = lwParams
                                  /\ lwJ.k = lwSolve.k]
                ELSE [status |-> "AttributeError", current |-> FALSE]
    /\ UNCHANGED <<lwParams, lwUnknowns, lwJ, lwStatus, lwSolve, lwHist>>
    /\ UNCHANGED <<pwVars, tsVars, tkVars>>

\* the caller changes the wave period
LinearWaves_set_T ==
    /\ \E t \in WavePeriods :
          /\ t # lwParams.T
          /\ lwParams' = [lwParams EXCEPT !.T = t]
    /\ lwRet' = [status |-> "none", current |-> FALSE]
    /\ UNCHANGED <<lwUnknowns, lwJ, lwStatus, lwSolve, lwHist>>
    /\ UNCHANGED <<pwVars, tsVars, tkVars>>

\* the caller moves the sea floor
LinearWaves_set_z_floor ==
    /\ \E zf \in WaveFloors :
          /\ zf # lwParams.z_floor
          /\ lwParams' = [lwParams EXCEPT !.z_floor = zf]
    /\ lwRet' = [status |-> "none", current |-> FALSE]
    /\ UNCHANGED <<lwUnknowns, lwJ, lwStatus, lwSolve, lwHist>>
    /\ UNCHANGED <<pwVars, tsVars, tkVars>>

-----------------------------------------------------------------------------
(* TowerSoil *)

Dof == 1..6

NuSet == {Rat(2, 5), Rat(1, 2), Rat(1, 1), Rat(-1, 1)}

TowerSoilInputs ==
    [G : {1, 140}, nu : NuSet, depth : 0..MaxDepth, r0 : -1..MaxR0,
     rigid : [Dof -> BOOLEAN]]

\* the float divisions of execute and provideJ divide by r0, 1.0-nu and 7.0-8.0*nu
TowerSoilDivides(s) ==
    s.r0 # 0 /\ s.nu # ROne /\ RSub(RInt(7), RMul(RInt(8), s.nu)) # RZero

\* lines 373-374: eta = 1.0 + 0.6*(1.0-nu)*h/r0; k_z = 4*G*r0*eta/(1.0-nu)
Kz(s) ==
    LET eta == RAdd(ROne, RDiv(RMul(RMul(Rat(3, 5), RSub(ROne, s.nu)), RInt(s.depth)),
                               RInt(s.r0)))
    IN RDiv(RMul(RInt(4 * s.G * s.r0), eta), RSub(ROne, s.nu))

\* lines 377-378: eta = 1.0 + 0.55*(2.0-nu)*h/r0; k_x = 32.0*(1.0-nu)*G*r0*eta/(7.0-8.0*nu)
Kx(s) ==
    LET eta == RAdd(ROne, RDiv(RMul(RMul(Rat(11, 20), RSub(RInt(2), s.nu)), RInt(s.depth)),
                               RInt(s.r0)))
    IN RDiv(RMul(RMul(RMul(RInt(32), RSub(ROne, s.nu)), RInt(s.G * s.r0)), eta),
            RSub(RInt(7), RMul(RInt(8), s.nu)))

\* line 381: eta = 1.0 + 1.2*(1.0-nu)*h/r0 + 0.2*(2.0-nu)*(h/r0)**3
EtaRocking(s) ==
    RAdd(RAdd(ROne,
              RDiv(RMul(RMul(Rat(6, 5), RSub(ROne, s.nu)), RInt(s.depth)), RInt(s.r0))),
         RMul(RMul(Rat(1, 5), RSub(RInt(2), s.nu)),
              RPow(RDiv(RInt(s.depth), RInt(s.r0)), 3)))

\* line 382: k_thetax = 8.0*G*r0**3*eta/(3.0*(1.0-nu))
Kthetax(s) ==
    RDiv(RMul(RInt(8 * s.G * s.r0 * s.r0 * s.r0), EtaRocking(s)),
         RMul(RInt(3), RSub(ROne, s.nu)))

\* line 385: k_phi = 16.0*G*r0**3/3.0
Kphi(s) == Rat(16 * s.G * s.r0 * s.r0 * s.r0, 3)

\* line 387: np.array([k_x, k_thetax, k_x, k_thetax, k_z, k_phi])
StiffnessArray(s) == <<Kx(s), Kthetax(s), Kx(s), Kthetax(s), Kz(s), Kphi(s)>>

\* a[mask] = v, returning the written array
MaskAssign(a, mask, v) == [i \in Dof |-> IF mask[i] THEN v ELSE a[i]]

\* execute with line 388 left out
TowerSoilExecute_norigid(s) == StiffnessArray(s)

\* lines 387-388: self.k = np.array([...]); self.k[self.rigid] = float('inf')
TowerSoilExecute(s) == MaskAssign(StiffnessArray(s), s.rigid, PosInf)

\* lines 407-412
DkzDr0(s) ==
    LET eta == RAdd(ROne, RDiv(RMul(RMul(Rat(3, 5), RSub(ROne, s.nu)), RInt(s.depth)),
                               RInt(s.r0)))
        deta_dr0 == RDiv(RMul(RMul(Rat(-3, 5), RSub(ROne, s.nu)), RInt(s.depth)),
                         RInt(s.r0 * s.r0))
    IN RMul(RDiv(RInt(4 * s.G), RSub(ROne, s.nu)), RAdd(eta, RMul(RInt(s.r0), deta_dr0)))

DkzDh(s) ==
    LET deta_dh == RDiv(RMul(Rat(3, 5), RSub(ROne, s.nu)), RInt(s.r0))
    IN RMul(RDiv(RInt(4 * s.G * s.r0), RSub(ROne, s.nu)), deta_dh)

\* lines 415-420
DkxDr0(s) ==
    LET eta == RAdd(ROne, RDiv(RMul(RMul(Rat(11, 20), RSub(RInt(2), s.nu)), RInt(s.depth)),
                               RInt(s.r0)))
        deta_dr0 == RDiv(RMul(RMul(Rat(-11, 20), RSub(RInt(2), s.nu)), RInt(s.depth)),
                         RInt(s.r0 * s.r0))
    IN RMul(RDiv(RMul(RMul(RInt(32), RSub(ROne, s.nu)), RInt(s.G)),
                 RSub(RInt(7), RMul(RInt(8), s.nu))),
            RAdd(eta, RMul(RInt(s.r0), deta_dr0)))

DkxDh(s) ==
    LET deta_dh == RDiv(RMul(Rat(11, 20), RSub(RInt(2), s.nu)), RInt(s.r0))
    IN RMul(RDiv(RMul(RMul(RInt(32), RSub(ROne, s.nu)), RInt(s.G * s.r0)),
                 RSub(RInt(7), RMul(RInt(8), s.nu))),
            deta_dh)

\* lines 423-428
DkthetaxDr0(s) ==
    LET hr3 == RPow(RDiv(RInt(s.depth), RInt(s.r0)), 3)
        deta_dr0 ==
            RSub(RDiv(RMul(RMul(Rat(-6, 5), RSub(ROne, s.nu)), RInt(s.depth)),
                      RInt(s.r0 * s.r0)),
                 RDiv(RMul(RMul(Rat(3, 5), RSub(RInt(2), s.nu)), hr3), RInt(s.r0)))
    IN RMul(RDiv(RInt(8 * s.G), RMul(RInt(3), RSub(ROne, s.nu))),
            RAdd(RMul(RInt(3 * s.r0 * s.r0), EtaRocking(s)),
                 RMul(RInt(s.r0 * s.r0 * s.r0), deta_dr0)))

DkthetaxDh(s) ==
    LET deta_dh ==
            RAdd(RDiv(RMul(Rat(6, 5), RSub(ROne, s.nu)), RInt(s.r0)),
                 RMul(RMul(RMul(Rat(3, 5), RSub(RInt(2), s.nu)),
                           RPow(RDiv(ROne, RInt(s.r0)), 3)),
                      RInt(s.depth * s.depth)))
    IN RMul(RDiv(RInt(8 * s.G * s.r0 * s.r0 * s.r0), RMul(RInt(3), RSub(ROne, s.nu))),
            deta_dh)

\* lines 431-432
DkphiDr0(s) == Rat(16 * s.G * 3 * s.r0 * s.r0, 3)

DkphiDh(s) == RZero

\* lines 434-437: the two derivative arrays, zeroed where rigid
DkDr0(s) ==
    MaskAssign(<<DkxDr0(s), DkthetaxDr0(s), DkxDr0(s), DkthetaxDr0(s), DkzDr0(s), DkphiDr0(s)>>,
               s.rigid, RZero)

DkDh(s) ==
    MaskAssign(<<DkxDh(s), DkthetaxDh(s), DkxDh(s), DkthetaxDh(s), DkzDh(s), DkphiDh(s)>>,
               s.rigid, RZero)

\* lines 391-396: list_deriv_vars, the (output, input) pairs J covers
TowerSoilJKeys == {<<"k", "r0">>, <<"k", "depth">>}

\* SoilBase.__init__: k starts as zeros(6)
ZeroStiffness == [i \in Dof |-> RZero]

NoSoilJ == [status |-> "none", dk_dr0 |-> ZeroStiffness, dk_dh |-> ZeroStiffness]

TowerSoilInit ==
    /\ tsIn \in TowerSoilInputs
    /\ tsK = ZeroStiffness
    /\ tsStatus = "none"
    /\ tsJ = NoSoilJ

\* TowerSoil.execute, lines 365-388
TowerSoil_execute ==
    /\ tsStatus = "none"
    /\ IF TowerSoilDivides(tsIn)
       THEN tsK' = TowerSoilExecute(tsIn) /\ tsStatus' = "ok"
       ELSE tsK' = tsK /\ tsStatus' = "ZeroDivisionError"
    /\ UNCHANGED <<tsIn, tsJ>>
    /\ UNCHANGED <<pwVars, lwVars, tkVars>>

\* TowerSoil.provideJ, lines 399-441
TowerSoil_provideJ ==
    /\ tsStatus = "ok"
    /\ tsJ.status = "none"
    /\ tsJ' = [status |-> "ok", dk_dr0 |-> DkDr0(tsIn), dk_dh |-> DkDh(tsIn)]
    /\ UNCHANGED <<tsIn, tsK, tsStatus>>
    /\ UNCHANGED <<pwVars, lwVars, tkVars>>

-----------------------------------------------------------------------------
(* TowerSoilK *)

KinValues == {RInt(n) : n \in 1..MaxKin} \cup {PosInf}

\* line 342: the only derivative declaration of the class (no list_deriv_vars,
\* no provideJ): derivatives it does not provide are taken as zero
TowerSoilK_missing_deriv_policy == "assume_zero"

\* the derivative of k[i] with respect to kin[i] the component gives
TowerSoilK_dk_dkin(i) == IF TowerSoilK_missing_deriv_policy = "assume_zero" THEN 0 ELSE 1

\* the array self.kin holds, the array self.k holds
Kin == tkHeap[tkRef.kin]
K == tkHeap[tkRef.k]

TowerSoilKInit ==
    /\ tkKin0 \in [Dof -> KinValues]
    /\ tkHeap = [kin_array |-> tkKin0, k_array |-> ZeroStiffness]
    /\ tkRef = [kin |-> "kin_array", k |-> "k_array"]
    /\ tkRigid \in [Dof -> BOOLEAN]
    /\ tkStatus = "none"

\* TowerSoilK.execute, lines 345-347: self.k = self.kin binds k to kin's array;
\* self.k[self.rigid] = float('inf') writes into that array
TowerSoilK_execute ==
    /\ tkStatus = "none"
    /\ tkRef' = [tkRef EXCEPT !.k = tkRef.kin]
    /\ tkHeap' = [tkHeap EXCEPT ![tkRef'.k] = MaskAssign(@, tkRigid, PosInf)]
    /\ tkStatus' = "ok"
    /\ UNCHANGED <<tkRigid, tkKin0>>
    /\ UNCHANGED <<pwVars, lwVars, tsVars>>

-----------------------------------------------------------------------------
(* Specifications: one component instance is exercised, the others stay as built *)

\* WindBase.__init__ and PowerWind.__init__ defaults
PowerWindIdle ==
    /\ pwParams = [Uref |-> 0, zref |-> 0, z0 |-> 0, shearExp |-> 1, betaWind |-> 0,
                   z |-> [i \in Idx |-> 0]]
    /\ pwUnknowns = PowerWindUnknowns0
    /\ pwStatus = "none"
    /\ pwLin = [status |-> "none", J |-> {}]

\* WaveBase.__init__ and LinearWaves.__init__ defaults
LinearWavesIdle ==
    /\ lwParams = [z |-> [i \in Idx |-> 0], z_surface |-> 0, z_floor |-> 0, Uc |-> 0,
                   hmax |-> 0, T |-> 0, g |-> Fx(981, 100)]
    /\ lwUnknowns = LinearWavesUnknowns0
    /\ lwJ = NoJ
    /\ lwStatus = "none"
    /\ lwSolve = NoSolve
    /\ lwRet = [status |-> "none", current |-> FALSE]
    /\ lwHist = [called |-> FALSE, params |-> lwParams]

\* TowerSoil defaults, lines 353-358
TowerSoilIdle ==
    /\ tsIn = [G |-> 140, nu |-> Rat(2, 5), depth |-> 1, r0 |-> 1,
               rigid |-> [i \in Dof |-> FALSE]]
    /\ tsK = ZeroStiffness
    /\ tsStatus = "none"
    /\ tsJ = NoSoilJ

\* TowerSoilK defaults, line 336
TowerSoilKIdle ==
    /\ tkKin0 = [i \in Dof |-> PosInf]
    /\ tkHeap = [kin_array |-> tkKin0, k_array |-> ZeroStiffness]
    /\ tkRef = [kin |-> "kin_array", k |-> "k_array"]
    /\ tkRigid = [i \in Dof |-> FALSE]
    /\ tkStatus = "none"

PowerWindNext == PowerWind_solve_nonlinear \/ PowerWind_linearize

LinearWavesNext ==
    \/ LinearWaves_solve_nonlinear
    \/ LinearWaves_provideJ
    \/ LinearWaves_set_T
    \/ LinearWaves_set_z_floor

TowerSoilNext == TowerSoil_execute \/ TowerSoil_provideJ

TowerSoilKNext == TowerSoilK_execute

InitPowerWind == PowerWindInit /\ LinearWavesIdle /\ TowerSoilIdle /\ TowerSoilKIdle

InitLinearWaves == LinearWavesInit /\ PowerWindIdle /\ TowerSoilIdle /\ TowerSoilKIdle

InitTowerSoil == TowerSoilInit /\ PowerWindIdle /\ LinearWavesIdle /\ TowerSoilKIdle

InitTowerSoilK == TowerSoilKInit /\ PowerWindIdle /\ LinearWavesIdle /\ TowerSoilIdle

SpecPowerWind == InitPowerWind /\ [][PowerWindNext]_vars

SpecLinearWaves == InitLinearWaves /\ [][LinearWavesNext]_vars

SpecTowerSoil == InitTowerSoil /\ [][TowerSoilNext]_vars

SpecTowerSoilK == InitTowerSoilK /\ [][TowerSoilKNext]_vars

-----------------------------------------------------------------------------
(* Claims *)

\* the closed forms of the stiffness components, expanded over r0
FormulaKz(s) ==
    RAdd(RDiv(RInt(4 * s.G * s.r0), RSub(ROne, s.nu)), RMul(Rat(12, 5), RInt(s.G * s.depth)))

FormulaKx(s) ==
    RDiv(RMul(RMul(RInt(32 * s.G), RSub(ROne, s.nu)),
              RAdd(RInt(s.r0), RMul(RMul(Rat(11, 20), RSub(RInt(2), s.nu)), RInt(s.depth)))),
         RSub(RInt(7), RMul(RInt(8), s.nu)))

FormulaKthetax(s) ==
    RDiv(RMul(RInt(8 * s.G),
              RAdd(RAdd(RInt(s.r0 * s.r0 * s.r0),
                        RMul(RMul(Rat(6, 5), RSub(ROne, s.nu)), RInt(s.depth * s.r0 * s.r0))),
                   RMul(RMul(Rat(1, 5), RSub(RInt(2), s.nu)),
                        RInt(s.depth * s.depth * s.depth)))),
         RMul(RInt(3), RSub(ROne, s.nu)))

FormulaKphi(s) == RDiv(RInt(16 * s.G * s.r0 * s.r0 * s.r0), RInt(3))

FormulaStiffness(s) ==
    <<FormulaKx(s), FormulaKthetax(s), FormulaKx(s), FormulaKthetax(s),
      FormulaKz(s), FormulaKphi(s)>>

\* C1: after TowerSoil.execute, k[i] is +infinity wherever rigid[i] and the formula
\* value elsewhere; in the Jacobian returned afterwards, the dk/dr0 and dk/ddepth
\* entries of every rigid index are exactly zero.
C1_RigidOverride ==
    /\ tsStatus = "ok" =>
          \A i \in Dof :
              tsK[i] = IF tsIn.rigid[i] THEN PosInf ELSE FormulaStiffness(tsIn)[i]
    /\ tsJ.status = "ok" =>
          \A i \in Dof :
              tsIn.rigid[i] => tsJ.dk_dr0[i] = RZero /\ tsJ.dk_dh[i] = RZero

\* the sample of the soil rigidity property, evaluated and linearized
C1_Witness ==
    /\ tsStatus = "ok"
    /\ tsJ.status = "ok"
    /\ tsIn = [G |-> 140, nu |-> Rat(2, 5), depth |-> 1, r0 |-> 1,
               rigid |-> <<TRUE, FALSE, TRUE, FALSE, FALSE, FALSE>>]
    /\ tsK[1] = PosInf /\ tsK[3] = PosInf /\ IsFinite(tsK[2])
    /\ tsJ.dk_dr0[1] = RZero /\ tsJ.dk_dr0[2] # RZero

\* the wave inputs meet the physical preconditions
PhysicalWaveInputs(p) == p.g > 0 /\ p.T > 0 /\ Depth(p) > 0

\* an evaluate on physical inputs got past the dispersion solve
WaveProfileReached ==
    lwHist.called /\ lwSolve.status = "ok" /\ PhysicalWaveInputs(lwHist.params)

\* C2: after a LinearWaves evaluate (on physical inputs), U[i] = 0 and A[i] = 0 for every query height
\* outside [z_floor, z_surface]; inside, U[i] is the formula value and
\* A[i] = U[i]*omega.
C2_WaveClamp ==
    WaveProfileReached =>
        LET p == lwHist.params
        IN \A i \in Idx :
              IF OutOfRange(p, i)
              THEN lwUnknowns.U[i] = 0 /\ lwUnknowns.A[i] = 0
              ELSE /\ lwUnknowns.U[i] = WaveSpeed(p, lwSolve.k, p.z[i] - p.z_surface)
                   /\ lwUnknowns.A[i] = FMul(lwUnknowns.U[i], Omega(p))

\* C3: a LinearWaves evaluate on physical inputs completes and produces
\* U0 and A0 from the speed formula at z_rel = 0, whatever the query heights; a
\* query height equal to z_surface has U[i] = U0 and A[i] = A0.
C3_SurfaceValue ==
    WaveProfileReached =>
        LET p == lwHist.params
        IN /\ lwStatus = "ok"
           /\ lwUnknowns.U0 = WaveSpeed(p, lwSolve.k, 0)
           /\ lwUnknowns.A0 = FMul(lwUnknowns.U0, Omega(p))
           /\ \A i \in Idx :
                 p.z[i] = p.z_surface =>
                     lwUnknowns.U[i] = lwUnknowns.U0 /\ lwUnknowns.A[i] = lwUnknowns.A0

\* the parts of C4 that do not depend on the sign of Uref
PowerLawShape(mono) ==
    (pwStatus = "ok" /\ pwParams.zref > pwParams.z0) =>
        /\ \A i \in Idx : pwParams.z[i] <= pwParams.z0 => pwUnknowns.U[i] = RZero
        /\ \A i \in Idx : pwUnknowns.beta[i] = pwParams.betaWind
        /\ mono =>
              \A i, j \in Idx :
                  (pwParams.z0 < pwParams.z[i] /\ pwParams.z[i] <= pwParams.z[j]) =>
                      RLeq(pwUnknowns.U[i], pwUnknowns.U[j])

\* C4 as stated: with zref > z0 and shearExp > 0, U[i] is exactly zero for every
\* z_i <= z0, U is non-decreasing over the heights above z0, and beta equals
\* betaWind at every height.
C4_PowerLawMonotone == PowerLawShape(TRUE)

\* C4 amended: the same, the monotonicity for Uref >= 0.
C4_PowerLawMonotoneNonnegUref == PowerLawShape(pwParams.Uref >= 0)

\* two heights above z0, the higher one strictly faster; one height at z0
C4_Witness ==
    /\ pwStatus = "ok"
    /\ pwParams.zref > pwParams.z0
    /\ pwParams.Uref > 0
    /\ \E i, j \in Idx :
          /\ pwParams.z0 < pwParams.z[i] /\ pwParams.z[i] < pwParams.z[j]
          /\ RLeq(pwUnknowns.U[i], pwUnknowns.U[j])
          /\ pwUnknowns.U[i] # pwUnknowns.U[j]

\* declared (output, input) pairs: add_output and add_param of each component
PowerWindPairs ==
    {"U", "beta"} \X {"Uref", "zref", "z", "z0", "shearExp", "betaWind"}

LinearWavesPairs ==
    {"U", "A", "beta", "U0", "A0", "beta0"}
        \X {"z", "z_surface", "z_floor", "Uc", "hmax", "T", "g", "betaWave"}

TowerSoilPairs == {"k"} \X {"r0", "depth", "G", "nu", "rigid"}

\* C5: the Jacobian a component returns after an evaluate has an entry for every
\* (declared output, declared input) pair of that component.
C5_JacobianComplete ==
    /\ pwLin.status # "none" => pwLin.status = "ok" /\ PowerWindPairs \subseteq pwLin.J
    /\ lwRet.status # "none" => lwRet.status = "ok"
    /\ tsJ.status # "none" => tsJ.status = "ok" /\ TowerSoilPairs \subseteq TowerSoilJKeys

\* C6: an evaluate whose inputs violate a physical precondition ends in an error
\* and produces no output values: zref <= z0 (wind), depth <= 0 (waves),
\* r0 <= 0 or nu outside (-1, 0.5) (soil).
C6_DomainError ==
    /\ (pwStatus # "none" /\ pwParams.zref <= pwParams.z0) =>
          pwStatus # "ok" /\ pwUnknowns = PowerWindUnknowns0
    /\ (lwHist.called /\ Depth(lwHist.params) <= 0) =>
          lwStatus # "ok" /\ lwSolve.status # "ok"
    /\ (tsStatus # "none"
          /\ (tsIn.r0 <= 0 \/ RLeq(tsIn.nu, RInt(-1)) \/ RLeq(Rat(1, 2), tsIn.nu))) =>
          tsStatus # "ok" /\ tsK = ZeroStiffness

\* C7: after TowerSoilK.execute, k[i] is kin[i] where rigid[i] is false and
\* +infinity where it is true, and dk[i]/dkin[i] is 1 for each unmasked
\* component and 0 for each masked one.
C7_PassThrough ==
    tkStatus = "ok" =>
        \A i \in Dof :
            /\ K[i] = IF tkRigid[i] THEN PosInf ELSE tkKin0[i]
            /\ TowerSoilK_dk_dkin(i) = IF tkRigid[i] THEN 0 ELSE 1

C9_SolveOutcome ==
    LET p == lwHist.params
        b == BracketEnd(p)
    IN /\ lwSolve.iters <= BrentqMaxIter
       /\ lwSolve.status = "ok" =>
             /\ lwSolve.k > 0 /\ lwSolve.k <= b
             /\ Dispersion(p, 0) * Dispersion(p, b) <= 0
       /\ lwSolve.status = "ValueError" => Dispersion(p, 0) * Dispersion(p, b) > 0
       /\ lwSolve.status = "RuntimeError" => lwSolve.iters = BrentqMaxIter

\* C10: an evaluate leaves every input of the component as the caller set it;
\* after TowerSoilK.execute, kin still holds the values the caller supplied.
C10_InputsUnchanged == tkStatus = "ok" => Kin = tkKin0

====
